---- MODULE Spec2Model ----
(***************************************************************************)
(* One run of one of the three bootcamp scripts                            *)
(*   week-1/assignment/scripts/index.ts      (multi-instruction transfer)  *)
(*   unnamed/part_000                        (token mint with metadata)    *)
(*   week-2/assignment/scripts/createNFTs.ts (NFT mint through Metaplex)   *)
(* against a cluster that verifies, executes and commits the submitted     *)
(* transaction.  Every `await` of a script is one request; the synchronous *)
(* code between two awaits is one step.                                    *)
(***************************************************************************)
EXTENDS Integers, Sequences, FiniteSets, TLC

VARIABLES
  script,        \* which script this run executes
  pc,            \* position of the async entry point
  outstanding,   \* network requests issued and not yet answered
  issued,        \* every network request issued so far, in order
  completed,     \* every network request answered so far, in order
  rentLamports,  \* token mint: result of getMinimumBalanceForRentExemption
  tx,            \* the transaction object the script holds
  sig,           \* signature returned by sendTransaction / create
  submitErr,     \* error the submission step failed with
  caught,        \* token mint: `err` bound by the catch clause
  exitErr,       \* error that left the entry point (rejected promise)
  sendCount,     \* invocations of connection.sendTransaction
  extractAttempts, \* invocations of extractSignatureFromFailedTransaction
  failedLogged,  \* "Failed to send transaction:" was printed
  failedSigLogged, \* signature printed after "Failed signature:"
  fileWrites,    \* entries written by savePublicKeyToFile
  createArgs,    \* NFT: arguments handed to metaplex.nfts().create
  nft,           \* NFT: the NFT the cluster created
  chain,         \* committed cluster state
  work,          \* cluster state of the transaction being executed
  chainIp,       \* index of the next instruction the cluster executes
  chainFail,     \* why the cluster rejected the transaction
  committed,     \* the cluster committed the transaction
  bal0,          \* balances before the run
  fee            \* fee the cluster charges the fee payer

vars == <<script, pc, outstanding, issued, completed, rentLamports, tx, sig,
          submitErr, caught, exitErr, sendCount, extractAttempts, failedLogged,
          failedSigLogged, fileWrites, createArgs, nft, chain, work, chainIp,
          chainFail, committed, bal0, fee>>

scriptVars == <<script, bal0, fee>>

(***************************************************************************)
(* Bounds of the model.                                                    *)
(***************************************************************************)
\* payer starts with 0 .. MaxPayerUnits times 100,000,000 lamports
MaxPayerUnits == 4
\* STATIC_PUBLICKEY starts with 0 .. MaxStaticUnits times 100,000,000 lamports
MaxStaticUnits == 1
\* the cluster answers the rent query with 1 .. MaxRentUnits times RentUnit
MaxRentUnits == 2

(***************************************************************************)
(* Program constants.                                                      *)
(***************************************************************************)
CreateAccountLamports == 200000000
TransferLamports == 100000000
CloseLamports == 100000000
Week1Space == 0
TokenDecimals == 6
MintToSelfAmount == 100000000
MintToStaticAmount == 10000000
TokenSellerFeeBasisPoints == 0
SellerFeeBasisPoints == 1000
DocumentedRoyaltyPercent == 5

\* spl-token's MINT_SIZE, the space the token mint account is created with
MINT_SIZE == 82

Scripts == {"week1", "tokenMint", "nft"}

Accounts == {"payer", "keypair", "STATIC_PUBLICKEY", "mintKeypair",
             "metadataAccount", "associatedToken", "associatedToken2"}

NoErr == [name |-> "none", signature |-> "none"]

\* what a failed request throws: an RPC failure, or a SendTransactionError
\* whose text may or may not carry the transaction's signature
NetworkError == [name |-> "NetworkError", signature |-> "none"]
SendTransactionErrors ==
  {[name |-> "SendTransactionError", signature |-> "txsig"],
   [name |-> "SendTransactionError", signature |-> "none"]}
FileError == [name |-> "FileError", signature |-> "none"]

Blockhashes == {"bh1", "bh2"}
Uris == {"uri1", "uri2"}
\* lamports per rent unit in the cluster's answers
RentUnit == 1000000
RentAnswers == {k * RentUnit : k \in 1..MaxRentUnits}
Fees == {0, 10000}

(***************************************************************************)
(* Instruction constructors of the wrapped libraries, with the arguments   *)
(* the scripts pass.                                                       *)
(***************************************************************************)
Ix(kind, from, to, mint, auth, owner, amount, space) ==
  [kind |-> kind, from |-> from, to |-> to, mint |-> mint, auth |-> auth,
   owner |-> owner, amount |-> amount, space |-> space]

SystemProgram_createAccount(fromPubkey, newAccountPubkey, lamports, space, programId) ==
  Ix("createAccount", fromPubkey, newAccountPubkey, "none", "none", programId, lamports, space)

SystemProgram_transfer(lamports, fromPubkey, toPubkey) ==
  Ix("transfer", fromPubkey, toPubkey, "none", "none", "none", lamports, 0)

createInitializeMint2Instruction(mint, decimals, mintAuthority, freezeAuthority) ==
  Ix("initializeMint2", "none", mint, mint, mintAuthority, freezeAuthority, decimals, 0)

createCreateMetadataAccountV3Instruction(metadata, mint, mintAuthority, payerKey, updateAuthority, bps) ==
  Ix("createMetadataAccountV3", payerKey, metadata, mint, mintAuthority, updateAuthority, bps, 0)

createAssociatedTokenAccountInstruction(payerKey, associatedTokenKey, owner, mint) ==
  Ix("createAssociatedTokenAccount", payerKey, associatedTokenKey, mint, "none", owner, 0, 0)

createMintToInstruction(mint, destination, authority, amount) ==
  Ix("mintTo", "none", destination, mint, authority, "none", amount, 0)

\* the accounts that must sign for an instruction
IxSigners(ix) ==
  CASE ix.kind = "createAccount" -> {ix.from, ix.to}
    [] ix.kind = "transfer" -> {ix.from}
    [] ix.kind = "initializeMint2" -> {}
    [] ix.kind = "createMetadataAccountV3" -> {ix.auth, ix.from}
    [] ix.kind = "createAssociatedTokenAccount" -> {ix.from}
    [] ix.kind = "mintTo" -> {ix.auth}

\* the account an instruction brings into existence ("none": it creates nothing)
IxCreates(ix) ==
  IF ix.kind \in {"createAccount", "createMetadataAccountV3", "createAssociatedTokenAccount"}
  THEN ix.to ELSE "none"

\* the accounts an instruction reads or debits and that must already exist
IxNeeds(ix) ==
  CASE ix.kind = "createAccount" -> {ix.from}
    [] ix.kind = "transfer" -> {ix.from}
    [] ix.kind = "initializeMint2" -> {ix.mint}
    [] ix.kind = "createMetadataAccountV3" -> {ix.from, ix.mint}
    [] ix.kind = "createAssociatedTokenAccount" -> {ix.from, ix.mint}
    [] ix.kind = "mintTo" -> {ix.mint, ix.to}

(***************************************************************************)
(* week-1: the three instructions and the signers.                         *)
(***************************************************************************)
createAccountIx ==
  SystemProgram_createAccount("payer", "keypair", CreateAccountLamports, Week1Space, "SystemProgram")

transferToStaticWalletIx ==
  SystemProgram_transfer(TransferLamports, "keypair", "STATIC_PUBLICKEY")

\* faulty variant of closeAccountIx: the remainder goes to STATIC_PUBLICKEY
closeAccountIx_ToStatic ==
  SystemProgram_transfer(CloseLamports, "keypair", "STATIC_PUBLICKEY")

closeAccountIx ==
  SystemProgram_transfer(CloseLamports, "keypair", "payer")

W1_Instructions == <<createAccountIx, transferToStaticWalletIx, closeAccountIx>>

\* faulty variant of W1_Signers: the new account's keypair does not sign
W1_Signers_PayerOnly == {"payer"}

W1_Signers == {"payer", "keypair"}

(***************************************************************************)
(* token mint: the seven instructions and the signers.                     *)
(***************************************************************************)
createMintAccountInstruction(lamports) ==
  SystemProgram_createAccount("payer", "mintKeypair", lamports, MINT_SIZE, "TOKEN_PROGRAM_ID")

initializeMintInstruction ==
  createInitializeMint2Instruction("mintKeypair", TokenDecimals, "payer", "payer")

createMetadataInstruction ==
  createCreateMetadataAccountV3Instruction("metadataAccount", "mintKeypair", "payer",
                                           "payer", "payer", TokenSellerFeeBasisPoints)

createAssociatedTokenAccountSelfInstruction ==
  createAssociatedTokenAccountInstruction("payer", "associatedToken", "payer", "mintKeypair")

mintTokenToSelfInstruction ==
  createMintToInstruction("mintKeypair", "associatedToken", "payer", MintToSelfAmount)

createAssociatedTokenAccountStaticInstruction ==
  createAssociatedTokenAccountInstruction("payer", "associatedToken2", "STATIC_PUBLICKEY", "mintKeypair")

mintTokenToStaticAddressInstruction ==
  createMintToInstruction("mintKeypair", "associatedToken2", "payer", MintToStaticAmount)

\* faulty variant of T_Instructions: the second mintTo precedes the creation
\* of its destination account
T_Instructions_MintBeforeAccount(lamports) ==
  <<createMintAccountInstruction(lamports),
    initializeMintInstruction,
    createMetadataInstruction,
    createAssociatedTokenAccountSelfInstruction,
    mintTokenToSelfInstruction,
    mintTokenToStaticAddressInstruction,
    createAssociatedTokenAccountStaticInstruction>>

T_Instructions(lamports) ==
  <<createMintAccountInstruction(lamports),
    initializeMintInstruction,
    createMetadataInstruction,
    createAssociatedTokenAccountSelfInstruction,
    mintTokenToSelfInstruction,
    createAssociatedTokenAccountStaticInstruction,
    mintTokenToStaticAddressInstruction>>

T_Signers == {"payer", "mintKeypair"}

(***************************************************************************)
(* The cluster: account state and the execution of one instruction.        *)
(***************************************************************************)
InitialChain(b) ==
  [bal |-> b,
   exists |-> {a \in Accounts : b[a] > 0},
   owner |-> [a \in Accounts |-> IF b[a] > 0 THEN "SystemProgram" ELSE "none"],
   space |-> [a \in Accounts |-> 0],
   mints |-> {},
   authority |-> [a \in Accounts |-> "none"],
   tokenMintOf |-> [a \in Accounts |-> "none"],
   tokens |-> [a \in Accounts |-> 0],
   supply |-> [a \in Accounts |-> 0]]

Rejected(c, why) == [err |-> why, c |-> c]
Executed(c) == [err |-> "none", c |-> c]

\* the errors of an instruction that touches an account that does not exist
\* yet, or a mint or token account that is not initialised yet
MissingAccountErrors == {"AccountNotFound", "UninitializedAccount"}

ApplyIx(c, ix) ==
  CASE ix.kind = "createAccount" ->
         IF ix.from \notin c.exists THEN Rejected(c, "AccountNotFound")
         ELSE IF ix.to \in c.exists THEN Rejected(c, "AccountAlreadyInUse")
         ELSE IF c.bal[ix.from] < ix.amount THEN Rejected(c, "InsufficientFunds")
         ELSE Executed([c EXCEPT !.bal[ix.from] = @ - ix.amount,
                                 !.bal[ix.to] = @ + ix.amount,
                                 !.exists = @ \cup {ix.to},
                                 !.owner[ix.to] = ix.owner,
                                 !.space[ix.to] = ix.space])
    [] ix.kind = "transfer" ->
         IF ix.from \notin c.exists THEN Rejected(c, "AccountNotFound")
         ELSE IF c.bal[ix.from] < ix.amount THEN Rejected(c, "InsufficientFunds")
         ELSE Executed([[c EXCEPT !.bal[ix.from] = @ - ix.amount]
                           EXCEPT !.bal[ix.to] = @ + ix.amount,
                                  !.exists = @ \cup {ix.to},
                                  !.owner[ix.to] = IF ix.to \in c.exists THEN @ ELSE "SystemProgram"])
    [] ix.kind = "initializeMint2" ->
         IF ix.mint \notin c.exists THEN Rejected(c, "AccountNotFound")
         ELSE IF c.owner[ix.mint] # "TOKEN_PROGRAM_ID" \/ c.space[ix.mint] # MINT_SIZE
           THEN Rejected(c, "InvalidAccountData")
         ELSE IF ix.mint \in c.mints THEN Rejected(c, "AlreadyInitialized")
         ELSE Executed([c EXCEPT !.mints = @ \cup {ix.mint},
                                 !.authority[ix.mint] = ix.auth])
    [] ix.kind = "createMetadataAccountV3" ->
         IF ix.from \notin c.exists \/ ix.mint \notin c.exists THEN Rejected(c, "AccountNotFound")
         ELSE IF ix.mint \notin c.mints THEN Rejected(c, "UninitializedAccount")
         ELSE IF c.authority[ix.mint] # ix.auth THEN Rejected(c, "InvalidMintAuthority")
         ELSE IF ix.to \in c.exists THEN Rejected(c, "AccountAlreadyInUse")
         ELSE Executed([c EXCEPT !.exists = @ \cup {ix.to},
                                 !.owner[ix.to] = "METADATA_PROGRAM_ID"])
    [] ix.kind = "createAssociatedTokenAccount" ->
         IF ix.from \notin c.exists \/ ix.mint \notin c.exists THEN Rejected(c, "AccountNotFound")
         ELSE IF ix.mint \notin c.mints THEN Rejected(c, "UninitializedAccount")
         ELSE IF ix.to \in c.exists THEN Rejected(c, "AccountAlreadyInUse")
         ELSE Executed([c EXCEPT !.exists = @ \cup {ix.to},
                                 !.owner[ix.to] = "TOKEN_PROGRAM_ID",
                                 !.tokenMintOf[ix.to] = ix.mint])
    [] ix.kind = "mintTo" ->
         IF ix.mint \notin c.exists \/ ix.to \notin c.exists THEN Rejected(c, "AccountNotFound")
         ELSE IF ix.mint \notin c.mints \/ c.tokenMintOf[ix.to] # ix.mint
           THEN Rejected(c, "UninitializedAccount")
         ELSE IF c.authority[ix.mint] # ix.auth THEN Rejected(c, "OwnerMismatch")
         ELSE Executed([c EXCEPT !.tokens[ix.to] = @ + ix.amount,
                                 !.supply[ix.mint] = @ + ix.amount])

(***************************************************************************)
(* Transactions: message, signatures, and the signers a message requires.  *)
(***************************************************************************)
NoMessage == [payerKey |-> "none", recentBlockhash |-> "none", instructions |-> <<>>]
NoTx == [built |-> FALSE, message |-> NoMessage, signatures |-> {}, signedOver |-> NoMessage]

\* new TransactionMessage({payerKey, recentBlockhash, instructions}).compileToV0Message()
TransactionMessage(payerKey, recentBlockhash, instructions) ==
  [payerKey |-> payerKey, recentBlockhash |-> recentBlockhash, instructions |-> instructions]

\* new VersionedTransaction(message) followed by tx.sign(signers)
SignedTransaction(message, signers) ==
  [built |-> TRUE, message |-> message, signatures |-> signers, signedOver |-> message]

RequiredSigners(message) ==
  {message.payerKey} \cup
  UNION {IxSigners(message.instructions[i]) : i \in 1..Len(message.instructions)}

FullySigned(t) ==
  /\ t.built
  /\ RequiredSigners(t.message) \subseteq t.signatures
  /\ t.signedOver = t.message

\* helpers of lib/helpers
buildTransaction(payerKey, signers, instructions, blockhash) ==
  SignedTransaction(TransactionMessage(payerKey, blockhash, instructions), signers)

extractSignatureFromFailedTransaction(err) == err.signature

(***************************************************************************)
(* Initial states: the script to run and the cluster it runs against.      *)
(***************************************************************************)
InitialBalances ==
  {[a \in Accounts |->
      CASE a = "payer" -> p * TransferLamports + f
        [] a = "STATIC_PUBLICKEY" -> s * TransferLamports
        [] OTHER -> 0] :
     p \in 0..MaxPayerUnits, s \in 0..MaxStaticUnits, f \in Fees}

Init ==
  /\ script \in Scripts
  /\ pc = "start"
  /\ outstanding = {}
  /\ issued = <<>>
  /\ completed = <<>>
  /\ rentLamports = 0
  /\ tx = NoTx
  /\ sig = "none"
  /\ submitErr = NoErr
  /\ caught = NoErr
  /\ exitErr = NoErr
  /\ sendCount = 0
  /\ extractAttempts = 0
  /\ failedLogged = FALSE
  /\ failedSigLogged = "none"
  /\ fileWrites = <<>>
  /\ createArgs = [called |-> FALSE, uri |-> "none", sellerFeeBasisPoints |-> 0]
  /\ nft = [created |-> FALSE, uri |-> "none", sellerFeeBasisPoints |-> 0]
  /\ bal0 \in InitialBalances
  /\ fee \in Fees
  /\ chain = InitialChain(bal0)
  /\ work = InitialChain(bal0)
  /\ chainIp = 0
  /\ chainFail = "none"
  /\ committed = FALSE

(***************************************************************************)
(* Frames.                                                                 *)
(***************************************************************************)
chainVars == <<chain, work, chainIp, chainFail, committed>>
nftVars == <<createArgs, nft>>
catchVars == <<caught, extractAttempts, failedLogged, failedSigLogged>>

\* the request `done` is answered and the script goes on to issue `next`
AwaitThen(done, next) ==
  /\ done \in outstanding
  /\ outstanding' = (outstanding \ {done}) \cup {next}
  /\ issued' = Append(issued, next)
  /\ completed' = Append(completed, done)

\* the request `done` is answered and the script issues nothing more
AwaitLast(done) ==
  /\ done \in outstanding
  /\ outstanding' = outstanding \ {done}
  /\ issued' = issued
  /\ completed' = Append(completed, done)

\* the first request of a run
IssueFirst(next) ==
  /\ outstanding' = outstanding \cup {next}
  /\ issued' = Append(issued, next)
  /\ completed' = completed

\* an error leaves the async entry point: the promise rejects, nothing
\* handles it, and the process ends with a non-zero status
Reject(e) ==
  /\ exitErr' = e
  /\ pc' = "failed"

(***************************************************************************)
(* week-1/assignment/scripts/index.ts                                      *)
(***************************************************************************)
\* lines 12-67: build the three instructions, request the latest blockhash
W1_Start ==
  /\ script = "week1" /\ pc = "start"
  /\ IssueFirst("getLatestBlockhash")
  /\ pc' = "w1_await_blockhash"
  /\ UNCHANGED <<scriptVars, rentLamports, tx, sig, submitErr, exitErr, sendCount,
                 fileWrites, catchVars, nftVars, chainVars>>

\* lines 67-97: compile the message, sign it, submit it
W1_BlockhashOk ==
  /\ script = "week1" /\ pc = "w1_await_blockhash"
  /\ \E bh \in Blockhashes :
       tx' = SignedTransaction(TransactionMessage("payer", bh, W1_Instructions), W1_Signers)
  /\ AwaitThen("getLatestBlockhash", "sendTransaction")
  /\ sendCount' = sendCount + 1
  /\ pc' = "w1_await_send"
  /\ UNCHANGED <<scriptVars, rentLamports, sig, submitErr, exitErr,
                 fileWrites, catchVars, nftVars, chainVars>>

W1_BlockhashErr ==
  /\ script = "week1" /\ pc = "w1_await_blockhash"
  /\ AwaitLast("getLatestBlockhash")
  /\ Reject(NetworkError)
  /\ UNCHANGED <<scriptVars, rentLamports, tx, sig, submitErr, sendCount,
                 fileWrites, catchVars, nftVars, chainVars>>

\* lines 97-105: the signature comes back, the explorer link is printed
W1_SendOk ==
  /\ script = "week1" /\ pc = "w1_await_send"
  /\ committed
  /\ AwaitLast("sendTransaction")
  /\ sig' = "txsig"
  /\ pc' = "done"
  /\ UNCHANGED <<scriptVars, rentLamports, tx, submitErr, exitErr, sendCount,
                 fileWrites, catchVars, nftVars, chainVars>>

\* the errors sendTransaction can throw in the current cluster state
SendFailures ==
  {NetworkError} \cup (IF chainFail # "none" THEN SendTransactionErrors ELSE {})

\* faulty variant of W1_SendErr: the rejection is swallowed
W1_SendErr_Swallow ==
  /\ script = "week1" /\ pc = "w1_await_send"
  /\ \E e \in SendFailures :
       /\ submitErr' = e
       /\ pc' = "done"
       /\ exitErr' = exitErr
  /\ AwaitLast("sendTransaction")
  /\ UNCHANGED <<scriptVars, rentLamports, tx, sig, sendCount,
                 fileWrites, catchVars, nftVars, chainVars>>

\* line 97 throws: nothing catches, the rejection leaves the entry point
W1_SendErr ==
  /\ script = "week1" /\ pc = "w1_await_send"
  /\ \E e \in SendFailures :
       /\ submitErr' = e
       /\ Reject(e)
  /\ AwaitLast("sendTransaction")
  /\ UNCHANGED <<scriptVars, rentLamports, tx, sig, sendCount,
                 fileWrites, catchVars, nftVars, chainVars>>

(***************************************************************************)
(* unnamed/part_000: the token mint script                                 *)
(***************************************************************************)
\* lines 33-66: generate the mint keypair, request the rent-exempt minimum
T_Start ==
  /\ script = "tokenMint" /\ pc = "start"
  /\ IssueFirst("getMinimumBalanceForRentExemption")
  /\ pc' = "t_await_rent"
  /\ UNCHANGED <<scriptVars, rentLamports, tx, sig, submitErr, exitErr, sendCount,
                 fileWrites, catchVars, nftVars, chainVars>>

\* lines 60-167: build the seven instructions, call buildTransaction, which
\* requests the latest blockhash
T_RentOk ==
  /\ script = "tokenMint" /\ pc = "t_await_rent"
  /\ \E r \in RentAnswers : rentLamports' = r
  /\ AwaitThen("getMinimumBalanceForRentExemption", "getLatestBlockhash")
  /\ pc' = "t_await_blockhash"
  /\ UNCHANGED <<scriptVars, tx, sig, submitErr, exitErr, sendCount,
                 fileWrites, catchVars, nftVars, chainVars>>

T_RentErr ==
  /\ script = "tokenMint" /\ pc = "t_await_rent"
  /\ AwaitLast("getMinimumBalanceForRentExemption")
  /\ Reject(NetworkError)
  /\ UNCHANGED <<scriptVars, rentLamports, tx, sig, submitErr, sendCount,
                 fileWrites, catchVars, nftVars, chainVars>>

\* lines 167-186: buildTransaction returns the signed transaction; the try
\* block is entered and the transaction submitted
T_BlockhashOk ==
  /\ script = "tokenMint" /\ pc = "t_await_blockhash"
  /\ \E bh \in Blockhashes :
       tx' = buildTransaction("payer", T_Signers, T_Instructions(rentLamports), bh)
  /\ AwaitThen("getLatestBlockhash", "sendTransaction")
  /\ sendCount' = sendCount + 1
  /\ pc' = "t_await_send"
  /\ UNCHANGED <<scriptVars, rentLamports, sig, submitErr, exitErr,
                 fileWrites, catchVars, nftVars, chainVars>>

T_BlockhashErr ==
  /\ script = "tokenMint" /\ pc = "t_await_blockhash"
  /\ AwaitLast("getLatestBlockhash")
  /\ Reject(NetworkError)
  /\ UNCHANGED <<scriptVars, rentLamports, tx, sig, submitErr, sendCount,
                 fileWrites, catchVars, nftVars, chainVars>>

\* lines 186-193: the signature comes back, the explorer link is printed and
\* savePublicKeyToFile writes the mint's public key
T_SendOk_Saved ==
  /\ script = "tokenMint" /\ pc = "t_await_send"
  /\ committed
  /\ AwaitLast("sendTransaction")
  /\ sig' = "txsig"
  /\ fileWrites' = Append(fileWrites, [name |-> "tokenMint", key |-> "mintKeypair"])
  /\ pc' = "done"
  /\ UNCHANGED <<scriptVars, rentLamports, tx, submitErr, exitErr, sendCount,
                 catchVars, nftVars, chainVars>>

\* lines 186-199: the signature comes back, but savePublicKeyToFile throws
\* inside the try block; the catch clause takes the error
T_SendOk_SaveThrows ==
  /\ script = "tokenMint" /\ pc = "t_await_send"
  /\ committed
  /\ AwaitLast("sendTransaction")
  /\ sig' = "txsig"
  /\ caught' = FileError
  /\ failedLogged' = TRUE
  /\ extractAttempts' = extractAttempts + 1
  /\ pc' = "t_await_extract"
  /\ UNCHANGED <<scriptVars, rentLamports, tx, submitErr, exitErr, sendCount,
                 fileWrites, failedSigLogged, nftVars, chainVars>>

\* faulty variant of T_SendErr: the key is saved although the send failed
T_SendErr_SavesKey ==
  /\ script = "tokenMint" /\ pc = "t_await_send"
  /\ \E e \in SendFailures :
       /\ submitErr' = e
       /\ caught' = e
  /\ AwaitLast("sendTransaction")
  /\ fileWrites' = Append(fileWrites, [name |-> "tokenMint", key |-> "mintKeypair"])
  /\ failedLogged' = TRUE
  /\ extractAttempts' = extractAttempts + 1
  /\ pc' = "t_await_extract"
  /\ UNCHANGED <<scriptVars, rentLamports, tx, sig, exitErr, sendCount,
                 failedSigLogged, nftVars, chainVars>>

\* lines 186, 194-199: sendTransaction throws; the catch clause logs and
\* calls extractSignatureFromFailedTransaction
T_SendErr ==
  /\ script = "tokenMint" /\ pc = "t_await_send"
  /\ \E e \in SendFailures :
       /\ submitErr' = e
       /\ caught' = e
  /\ AwaitLast("sendTransaction")
  /\ failedLogged' = TRUE
  /\ extractAttempts' = extractAttempts + 1
  /\ pc' = "t_await_extract"
  /\ UNCHANGED <<scriptVars, rentLamports, tx, sig, exitErr, sendCount,
                 fileWrites, failedSigLogged, nftVars, chainVars>>

\* faulty variant of T_ExtractDone: the catch clause ends without `throw err`
T_ExtractDone_NoThrow ==
  /\ script = "tokenMint" /\ pc = "t_await_extract"
  /\ failedSigLogged' = extractSignatureFromFailedTransaction(caught)
  /\ pc' = "done"
  /\ UNCHANGED <<scriptVars, outstanding, issued, completed, rentLamports, tx, sig,
                 submitErr, caught, exitErr, sendCount, extractAttempts, failedLogged,
                 fileWrites, nftVars, chainVars>>

\* faulty variant of T_ExtractDone: the catch clause submits again
T_ExtractDone_Retry ==
  /\ script = "tokenMint" /\ pc = "t_await_extract"
  /\ sendCount < 2
  /\ failedSigLogged' = extractSignatureFromFailedTransaction(caught)
  /\ IssueFirst("sendTransaction")
  /\ sendCount' = sendCount + 1
  /\ pc' = "t_await_send"
  /\ UNCHANGED <<scriptVars, rentLamports, tx, sig,
                 submitErr, caught, exitErr, extractAttempts, failedLogged,
                 fileWrites, nftVars, chainVars>>

\* lines 199-202: the extraction resolves, the signature (if any) is logged
\* and the caught error is thrown again
T_ExtractDone ==
  /\ script = "tokenMint" /\ pc = "t_await_extract"
  /\ failedSigLogged' = extractSignatureFromFailedTransaction(caught)
  /\ Reject(caught)
  /\ UNCHANGED <<scriptVars, outstanding, issued, completed, rentLamports, tx, sig,
                 submitErr, caught, sendCount, extractAttempts, failedLogged,
                 fileWrites, nftVars, chainVars>>

(***************************************************************************)
(* week-2/assignment/scripts/createNFTs.ts                                 *)
(***************************************************************************)
\* faulty variant of N_Start: create is issued without awaiting the upload
N_Start_NoAwait ==
  /\ script = "nft" /\ pc = "start"
  /\ outstanding' = outstanding \cup {"uploadMetadata", "create"}
  /\ issued' = issued \o <<"uploadMetadata", "create">>
  /\ completed' = completed
  /\ pc' = "n_await_upload"
  /\ UNCHANGED <<scriptVars, rentLamports, tx, sig, submitErr, exitErr, sendCount,
                 fileWrites, catchVars, nftVars, chainVars>>

\* lines 12-44: make the Metaplex instance, upload the JSON metadata
N_Start ==
  /\ script = "nft" /\ pc = "start"
  /\ IssueFirst("uploadMetadata")
  /\ pc' = "n_await_upload"
  /\ UNCHANGED <<scriptVars, rentLamports, tx, sig, submitErr, exitErr, sendCount,
                 fileWrites, catchVars, nftVars, chainVars>>

\* lines 44-66: generate the mint keypair and ask Metaplex to create the NFT
N_UploadOk ==
  /\ script = "nft" /\ pc = "n_await_upload"
  /\ \E u \in Uris :
       createArgs' = [called |-> TRUE, uri |-> u, sellerFeeBasisPoints |-> SellerFeeBasisPoints]
  /\ AwaitThen("uploadMetadata", "create")
  /\ pc' = "n_await_create"
  /\ UNCHANGED <<scriptVars, rentLamports, tx, sig, submitErr, exitErr, sendCount,
                 fileWrites, catchVars, nft, chainVars>>

N_UploadErr ==
  /\ script = "nft" /\ pc = "n_await_upload"
  /\ AwaitLast("uploadMetadata")
  /\ Reject(NetworkError)
  /\ UNCHANGED <<scriptVars, rentLamports, tx, sig, submitErr, sendCount,
                 fileWrites, catchVars, nftVars, chainVars>>

\* lines 55-82: the NFT exists on chain with the arguments passed; it is
\* logged and looked up again by its mint
N_CreateOk ==
  /\ script = "nft" /\ pc = "n_await_create"
  /\ nft' = [created |-> TRUE, uri |-> createArgs.uri,
             sellerFeeBasisPoints |-> createArgs.sellerFeeBasisPoints]
  /\ sig' = "txsig"
  /\ AwaitThen("create", "findByMint")
  /\ pc' = "n_await_find"
  /\ UNCHANGED <<scriptVars, rentLamports, tx, submitErr, exitErr, sendCount,
                 fileWrites, catchVars, createArgs, chainVars>>

\* line 55 throws: nothing catches, the rejection leaves the entry point
N_CreateErr ==
  /\ script = "nft" /\ pc = "n_await_create"
  /\ \E e \in {NetworkError} \cup SendTransactionErrors :
       /\ submitErr' = e
       /\ Reject(e)
  /\ AwaitLast("create")
  /\ UNCHANGED <<scriptVars, rentLamports, tx, sig, sendCount,
                 fileWrites, catchVars, nftVars, chainVars>>

\* lines 80-83: the mint info comes back and is logged
N_FindOk ==
  /\ script = "nft" /\ pc = "n_await_find"
  /\ AwaitLast("findByMint")
  /\ pc' = "done"
  /\ UNCHANGED <<scriptVars, rentLamports, tx, sig, submitErr, exitErr, sendCount,
                 fileWrites, catchVars, nftVars, chainVars>>

N_FindErr ==
  /\ script = "nft" /\ pc = "n_await_find"
  /\ AwaitLast("findByMint")
  /\ Reject(NetworkError)
  /\ UNCHANGED <<scriptVars, rentLamports, tx, sig, submitErr, sendCount,
                 fileWrites, catchVars, nftVars, chainVars>>

(***************************************************************************)
(* The cluster processing the submitted transaction: it checks signatures  *)
(* and the fee, executes the instructions in list order, and commits all   *)
(* of them or none.                                                        *)
(***************************************************************************)
runVars == <<script, pc, outstanding, issued, completed, rentLamports, tx, sig,
             submitErr, caught, exitErr, sendCount, extractAttempts, failedLogged,
             failedSigLogged, fileWrites, createArgs, nft, bal0, fee>>

Submitted == "sendTransaction" \in outstanding

ChainVerify ==
  /\ Submitted /\ chainIp = 0 /\ chainFail = "none"
  /\ IF ~FullySigned(tx)
       THEN chainFail' = "SignatureVerificationFailure" /\ UNCHANGED <<work, chainIp>>
     ELSE IF tx.message.payerKey \notin chain.exists
       THEN chainFail' = "FeePayerNotFound" /\ UNCHANGED <<work, chainIp>>
     ELSE IF chain.bal[tx.message.payerKey] < fee
       THEN chainFail' = "InsufficientFundsForFee" /\ UNCHANGED <<work, chainIp>>
     ELSE /\ work' = [chain EXCEPT !.bal[tx.message.payerKey] = @ - fee]
          /\ chainIp' = 1
          /\ chainFail' = chainFail
  /\ UNCHANGED <<runVars, chain, committed>>

ChainStep ==
  /\ Submitted /\ chainFail = "none" /\ ~committed
  /\ chainIp \in 1..Len(tx.message.instructions)
  /\ LET r == ApplyIx(work, tx.message.instructions[chainIp]) IN
       IF r.err # "none"
         THEN chainFail' = r.err /\ UNCHANGED <<work, chainIp>>
         ELSE work' = r.c /\ chainIp' = chainIp + 1 /\ chainFail' = chainFail
  /\ UNCHANGED <<runVars, chain, committed>>

ChainCommit ==
  /\ Submitted /\ chainFail = "none" /\ ~committed
  /\ chainIp = Len(tx.message.instructions) + 1
  /\ chain' = work
  /\ committed' = TRUE
  /\ UNCHANGED <<runVars, work, chainIp, chainFail>>

Next ==
  \/ W1_Start \/ W1_BlockhashOk \/ W1_BlockhashErr \/ W1_SendOk \/ W1_SendErr
  \/ T_Start \/ T_RentOk \/ T_RentErr \/ T_BlockhashOk \/ T_BlockhashErr
  \/ T_SendOk_Saved \/ T_SendOk_SaveThrows \/ T_SendErr \/ T_ExtractDone
  \/ N_Start \/ N_UploadOk \/ N_UploadErr \/ N_CreateOk \/ N_CreateErr
  \/ N_FindOk \/ N_FindErr
  \/ ChainVerify \/ ChainStep \/ ChainCommit

Spec == Init /\ [][Next]_vars

(***************************************************************************)
(* Properties.                                                             *)
(***************************************************************************)
Range(f) == {f[i] : i \in DOMAIN f}

IsPrefix(a, b) == Len(a) <= Len(b) /\ a = SubSeq(b, 1, Len(a))

\* C1: in the token mint script, once sendTransaction has failed with e the
\* script has attempted the signature extraction exactly once, holds e in
\* the catch clause, has not finished successfully, and when it ends it ends
\* failed with that same e.
C1_SendFailureRethrown ==
  (script = "tokenMint" /\ submitErr # NoErr) =>
    /\ pc \in {"t_await_extract", "failed"}
    /\ extractAttempts = 1
    /\ failedLogged
    /\ caught = submitErr
    /\ (pc = "t_await_extract" => exitErr = NoErr)
    /\ (pc = "failed" => exitErr = submitErr)

C1_Witness ==
  /\ script = "tokenMint" /\ pc = "failed"
  /\ submitErr \in SendTransactionErrors
  /\ exitErr = submitErr /\ extractAttempts = 1

\* C2 as stated: in each of the three scripts a failed submission is followed
\* by an attempt to extract a signature from the error, then the error is
\* raised again.
C2_EveryScriptExtracts ==
  (submitErr # NoErr /\ pc = "failed") =>
    (extractAttempts >= 1 /\ exitErr = submitErr)

\* C2 amended: in each of the three scripts a failed submission never ends in
\* a successful run and the error that leaves the script is the submission's
\* error; the extraction is attempted by the token mint script and by no
\* other script.
C2_FailureLeavesScript ==
  submitErr # NoErr =>
    /\ pc \in {"t_await_extract", "failed"}
    /\ (pc = "failed" => exitErr = submitErr)
    /\ (extractAttempts >= 1 <=> script = "tokenMint")

C2_Witness ==
  /\ script = "week1" /\ pc = "failed"
  /\ submitErr \in SendTransactionErrors
  /\ exitErr = submitErr /\ extractAttempts = 0

\* the order of the network requests the claim states for each script
ExpectedRequests(s) ==
  CASE s = "tokenMint" -> <<"getMinimumBalanceForRentExemption", "getLatestBlockhash", "sendTransaction">>
    [] s = "week1" -> <<"getLatestBlockhash", "sendTransaction">>
    [] s = "nft" -> <<"uploadMetadata", "create", "findByMint">>

\* C3: at most one request is outstanding, the requests are issued in the
\* stated order, and a request is issued only when every earlier one has
\* been answered.
C3_StrictSequence ==
  /\ Cardinality(outstanding) <= 1
  /\ IsPrefix(issued, ExpectedRequests(script))
  /\ IsPrefix(completed, issued)
  /\ Len(issued) = Len(completed) + Cardinality(outstanding)

C3_Witness ==
  /\ script = "nft" /\ pc = "done"
  /\ issued = ExpectedRequests("nft") /\ completed = issued

\* C4: in the week-1 and token mint scripts sendTransaction is invoked at
\* most once, and once it has failed it is neither outstanding nor invoked
\* again.
C4_NoRetry ==
  script \in {"week1", "tokenMint"} =>
    /\ sendCount <= 1
    /\ (submitErr # NoErr => sendCount = 1 /\ "sendTransaction" \notin outstanding)

C4_Witness ==
  /\ script = "tokenMint" /\ pc = "failed"
  /\ submitErr # NoErr /\ sendCount = 1

\* C5: the mint public key is written at most once, only by the token mint
\* script, only after sendTransaction returned a signature, and never in a
\* run whose submission failed; the other scripts write nothing.
C5_KeyWrittenOnceAfterSuccess ==
  /\ Len(fileWrites) <= 1
  /\ (submitErr # NoErr => fileWrites = <<>>)
  /\ (fileWrites # <<>> =>
        /\ script = "tokenMint"
        /\ sig # "none"
        /\ "sendTransaction" \in Range(completed)
        /\ fileWrites[1] = [name |-> "tokenMint", key |-> "mintKeypair"])

C5_Witness ==
  /\ script = "tokenMint" /\ pc = "done"
  /\ Len(fileWrites) = 1 /\ sig = "txsig"

\* C6: in the token mint script the failure branch ("Failed to send
\* transaction:", signature extraction, re-throw) is entered only in runs in
\* which sendTransaction itself failed, never in a run in which it returned
\* a signature.
C6_CatchOnlyOnSendFailure ==
  (script = "tokenMint" /\ (failedLogged \/ extractAttempts > 0)) =>
    (submitErr # NoErr /\ sig = "none")

\* the lamports held by the three accounts of the week-1 transaction
Week1Total(b) == b["payer"] + b["keypair"] + b["STATIC_PUBLICKEY"]

\* the claim's figures, for a ledger b reached from bal0
Week1Settled(b) ==
  /\ b["keypair"] = 0
  /\ b["STATIC_PUBLICKEY"] = bal0["STATIC_PUBLICKEY"] + 100000000
  /\ b["payer"] = bal0["payer"] - 100000000 - fee
  /\ Week1Total(b) + fee = Week1Total(bal0)

\* C7: once the three week-1 instructions have executed in order the new
\* account holds 0, STATIC_PUBLICKEY has gained 100,000,000, the payer has
\* lost 100,000,000 besides the fee, the three accounts' total is conserved
\* (the fee apart), and no balance is negative at any point of the execution.
C7_Week1Balances ==
  script = "week1" =>
    /\ \A a \in Accounts : work.bal[a] >= 0 /\ chain.bal[a] >= 0
    /\ (chainIp >= 1 => Week1Total(work.bal) + fee = Week1Total(bal0))
    /\ (chainIp = 2 => work.bal["keypair"] = 200000000)
    /\ (chainIp = 4 => Week1Settled(work.bal))
    /\ (committed => Week1Settled(chain.bal))
    /\ (~committed => chain.bal = bal0)

C7_Witness ==
  /\ script = "week1" /\ pc = "done" /\ committed
  /\ chain.bal["keypair"] = 0
  /\ chain.bal["payer"] = bal0["payer"] - 100000000 - fee

\* the accounts a list of instructions creates
CreatedBy(ixs) == {IxCreates(ixs[i]) : i \in 1..Len(ixs)} \ {"none"}

\* every instruction that needs an account the list creates comes after the
\* instruction creating it, and every instruction that needs the mint to be
\* initialised comes after initializeMint2
DependencyOrdered(ixs) ==
  \A i \in 1..Len(ixs) :
    /\ \A a \in IxNeeds(ixs[i]) \cap CreatedBy(ixs) :
         \E j \in 1..(i - 1) : IxCreates(ixs[j]) = a
    /\ ixs[i].kind \in {"createMetadataAccountV3", "createAssociatedTokenAccount", "mintTo"} =>
         \E j \in 1..(i - 1) : ixs[j].kind = "initializeMint2" /\ ixs[j].mint = ixs[i].mint

\* C8: the instruction list of the built transaction is dependency-ordered,
\* and the cluster, executing it in list order, never rejects an instruction
\* for touching an account that does not exist or is not initialised yet.
C8_DependencyOrdered ==
  /\ (tx.built => DependencyOrdered(tx.message.instructions))
  /\ chainFail \notin MissingAccountErrors

C8_Witness ==
  /\ script = "tokenMint" /\ committed
  /\ chainIp = 8
  /\ chain.tokens["associatedToken2"] = 10000000

\* C9: whenever a transaction has been submitted it carries the signature of
\* every account its message requires, the signed message is the message it
\* holds, and the cluster never rejects it for a missing signature.
C9_SignedWhenSubmitted ==
  /\ (sendCount > 0 => FullySigned(tx))
  /\ (script = "week1" /\ tx.built =>
        {"payer", "keypair"} \subseteq tx.signatures
        /\ RequiredSigners(tx.message) = {"payer", "keypair"})
  /\ (script = "tokenMint" /\ tx.built =>
        {"payer", "mintKeypair"} \subseteq tx.signatures
        /\ RequiredSigners(tx.message) = {"payer", "mintKeypair"})
  /\ chainFail # "SignatureVerificationFailure"

C9_Witness ==
  /\ script = "week1" /\ sendCount = 1
  /\ chainIp >= 1 /\ FullySigned(tx)

\* C10: the NFT is created with a royalty of 5.00%, that is 500 basis points
\* (one basis point is a hundredth of a percent).
C10_RoyaltyFivePercent ==
  /\ (createArgs.called => createArgs.sellerFeeBasisPoints = DocumentedRoyaltyPercent * 100)
  /\ (nft.created => nft.sellerFeeBasisPoints = DocumentedRoyaltyPercent * 100)

====
